---- MODULE Spec2Model ----
(***************************************************************************)
(* go-lc (src/main.go): count the '\n' bytes of a file by splitting it     *)
(* into splitNum byte ranges that are scanned by countWorker goroutines,   *)
(* at most maxThreads at a time, and summed by a receiver goroutine.       *)
(*                                                                         *)
(* Goroutines of the model: main (getNumOfLines), the receiver (the        *)
(* anonymous function of lines 110-119) and one countWorker per segment.   *)
(* The environment (the file system) may fail an open, a seek or a read,   *)
(* return a short read, or show a file shorter than the size getFileSize   *)
(* saw; every such event is counted in faults and recorded in a flag.      *)
(***************************************************************************)
EXTENDS Integers, Sequences, FiniteSets, TLC

\* ---- bounds of the model ------------------------------------------------
MaxFileLen == 3      \* longest file, in bytes
MaxBuf     == 2      \* largest -b
MaxSplit   == 3      \* largest -s
MaxThreads == 2      \* largest -t
MaxFaults  == 1      \* environment events (failures, short reads, truncation) per behaviour

\* ---- program constants --------------------------------------------------
NL == 10             \* '\n', the byte bytes.IndexByte searches for

FileBytes == {NL, 97}
Workers   == 0 .. (MaxSplit - 1)

VARIABLES
  file,            \* the target file's current content (a sequence of bytes)
  arg,             \* Arg: splitNum, maxThreads, buffersize (targetFile names file)
  proc,            \* "running" | "aborted" (the process died of a panic)
  mainpc,          \* position of main/getNumOfLines
  fsize,           \* getNumOfLines: fsize
  readCountTotal,  \* getNumOfLines: readCountTotal
  i,               \* getNumOfLines: loop index
  byteOffset,      \* getNumOfLines: byteOffset
  jc,              \* number of values buffered in jc (cap maxThreads)
  jcClosed,
  wg,              \* counter of the WaitGroup
  counterCh,       \* values buffered in counterCh (cap maxThreads): [from, c]
  counterClosed,
  resultClosed,
  recv,            \* receiver goroutine: pc, cAll, and what it consumed
  w,               \* countWorker goroutines, by segment index
  ret,             \* what getNumOfLines returned: [count, err]
  faults,          \* environment events so far
  modified,        \* the file is no longer what it was at the first invocation
  shortSeen,       \* some read of this invocation was short before end-of-file
  prev             \* the previous invocation of the program, if any: its total, and was it clean

vars == << file, arg, proc, mainpc, fsize, readCountTotal, i, byteOffset, jc,
           jcClosed, wg, counterCh, counterClosed, resultClosed, recv, w, ret,
           faults, modified, shortSeen, prev >>

\* ---- pure helpers -------------------------------------------------------
Min(a, b) == IF a < b THEN a ELSE b

RECURSIVE SumTo(_, _)
\* f[0] + ... + f[n-1]
SumTo(f, n) == IF n <= 0 THEN 0 ELSE f[n - 1] + SumTo(f, n - 1)

RECURSIVE CountNL(_)
\* the single sequential scan: number of NL bytes of a byte sequence
CountNL(s) == IF s = << >> THEN 0
              ELSE (IF Head(s) = NL THEN 1 ELSE 0) + CountNL(Tail(s))

RECURSIVE IndexByteFrom(_, _, _)
IndexByteFrom(s, b, k) ==
  IF k > Len(s) THEN -1 ELSE IF s[k] = b THEN k - 1 ELSE IndexByteFrom(s, b, k + 1)

\* bytes.IndexByte: 0-based index of the first b in s, or -1
IndexByte(s, b) == IndexByteFrom(s, b, 1)

\* variant of Slice: buf[of:], up to the end of the buffer
SliceMut(buf, of, n) == SubSeq(buf, of + 1, Len(buf))

\* buf[of:n] of the Go slice buf (0-based, n exclusive)
Slice(buf, of, n) == SubSeq(buf, of + 1, n)

RECURSIVE CountInBuf(_, _, _)
\* the inner for loop of getNumOfCharsOnIo (lines 207-224), started at offset of
CountInBuf(buf, of, n) ==
  LET index == IndexByte(Slice(buf, of, n), NL)
  IN  IF index = -1 THEN 0 ELSE 1 + CountInBuf(buf, of + index + 1, n)

\* int(math.Trunc(float64(a) / float64(b))) for 0 <= a, 0 < b: both conversions
\* are exact below 2^53, so the float quotient truncates to the integer quotient
TruncDiv(a, b) == a \div b

\* variant of ReadCountTotal that drops the final partial buffer
ReadCountTotalMut(size, buffersize) == TruncDiv(size, buffersize)

\* variant of ReadCountTotal that adds the extra read whatever the remainder
ReadCountTotalExtraMut(size, buffersize) == TruncDiv(size, buffersize) + 1

\* lines 85-90
ReadCountTotal(size, buffersize) ==
  LET q == TruncDiv(size, buffersize)
  IN  IF size - (q * buffersize) > 0 THEN q + 1 ELSE q

\* variant of EachReadCount that rounds every segment's share up
EachReadCountCeilMut(total, idx, splitNum) ==
  TruncDiv(total + (splitNum - 1), splitNum)

\* variant of EachReadCount that gives the extra read to the earlier segments
EachReadCountEarlyMut(total, idx, splitNum) ==
  TruncDiv(total + (splitNum - 1 - idx), splitNum)

\* variant of EachReadCount without the + i
EachReadCountMut(total, idx, splitNum) == TruncDiv(total, splitNum)

\* line 127
EachReadCount(total, idx, splitNum) == TruncDiv(total + idx, splitNum)

\* variant of NextOffset that advances by reads, not bytes
NextOffsetMut(offset, eachReadCount, buffersize) == offset + eachReadCount

\* line 139
NextOffset(offset, eachReadCount, buffersize) == offset + eachReadCount * buffersize

\* ---- channels and the WaitGroup ----------------------------------------
\* variant of JcCanSend: jc never blocks the spawner
JcCanSendMut == TRUE

\* jc <- true proceeds when the buffer of jc (cap maxThreads, line 96) has room
JcCanSend == jc < arg.maxThreads

\* counter <- c proceeds when the buffer of counterCh (cap maxThreads, line 102)
\* has room; with cap 0 no worker exists (JcCanSend is never true)
CounterCanSend == Len(counterCh) < arg.maxThreads

\* variant of WgIsZero: wg.Wait() does not wait
WgIsZeroMut == TRUE

\* wg.Wait() returns when the counter is zero
WgIsZero == wg = 0

\* ---- the file as the workers' handles see it ----------------------------
\* f.Read(buf) of an *os.File whose cursor is at pos: the bytes up to
\* end-of-file that fit the buffer with a nil error, (0, EOF) at or beyond
\* end-of-file; as environment events a failed read (0, EIO) or a short read.
ReadOutcomes(pos, buffersize) ==
  LET avail == Len(file) - pos
      full  == Min(buffersize, avail)
  IN  (IF avail <= 0 THEN {[n |-> 0, err |-> "EOF", fault |-> FALSE, short |-> FALSE]}
       ELSE {[n |-> full, err |-> "nil", fault |-> FALSE, short |-> FALSE]})
      \cup
      (IF faults < MaxFaults
       THEN {[n |-> 0, err |-> "EIO", fault |-> TRUE, short |-> FALSE]}
            \cup {[n |-> m, err |-> "nil", fault |-> TRUE, short |-> TRUE] : m \in 1 .. (full - 1)}
       ELSE {})

\* the buffer after a read of n bytes at pos: its first n bytes are overwritten
FillBuf(buf, pos, n) ==
  [k \in 1 .. Len(buf) |-> IF k <= n THEN file[pos + k] ELSE buf[k]]

IdleWorker ==
  [pc |-> "idle", eachReadCount |-> 0, byteOffset |-> 0, pos |-> 0, j |-> 0,
   cnt |-> 0, c |-> 0, err |-> "nil", hopen |-> FALSE, panicking |-> FALSE,
   failed |-> "none", zero |-> FALSE, buf |-> << >>,
   reads |-> 0, lastn |-> 0, stale |-> FALSE, slot |-> "none", sent |-> FALSE]

NoPrev == [valid |-> FALSE, total |-> 0, clean |-> FALSE, okcfg |-> FALSE, changed |-> FALSE]

NoRecv == [pc |-> "none", cAll |-> 0, n |-> 0, from |-> {}]

Configs ==
  [splitNum : 0 .. MaxSplit, maxThreads : 0 .. MaxThreads, buffersize : 1 .. MaxBuf]

Files == UNION {[1 .. n -> FileBytes] : n \in 0 .. MaxFileLen}

Init ==
  /\ file \in Files
  /\ arg \in Configs
  /\ proc = "running"
  /\ mainpc = "start"
  /\ fsize = 0 /\ readCountTotal = 0 /\ i = 0 /\ byteOffset = 0
  /\ jc = 0 /\ jcClosed = FALSE
  /\ wg = 0
  /\ counterCh = << >> /\ counterClosed = FALSE
  /\ resultClosed = FALSE
  /\ recv = NoRecv
  /\ w = [k \in Workers |-> IdleWorker]
  /\ ret = [count |-> 0, err |-> "none"]
  /\ faults = 0 /\ modified = FALSE /\ shortSeen = FALSE
  /\ prev = NoPrev

Running == proc = "running"

\* ---- main: getNumOfLines ------------------------------------------------
\* variant of GetFileSizeFail that goes on after the error
GetFileSizeFailMut ==
  /\ Running /\ mainpc = "start"
  /\ mainpc' = "loop"
  /\ recv' = [NoRecv EXCEPT !.pc = "range"]
  /\ ret' = [count |-> 0, err |-> "open"]
  /\ UNCHANGED << file, arg, proc, fsize, readCountTotal, i, byteOffset, jc, jcClosed,
                  wg, counterCh, counterClosed, resultClosed, w, faults, modified,
                  shortSeen, prev >>

\* lines 73-76 with getFileSize failing (OpenFile or Stat): return 0, err
GetFileSizeFail ==
  /\ Running /\ mainpc = "start"
  /\ mainpc' = "returned"
  /\ ret' = [count |-> 0, err |-> "open"]
  /\ UNCHANGED << file, arg, proc, fsize, readCountTotal, i, byteOffset, jc, jcClosed,
                  wg, counterCh, counterClosed, resultClosed, recv, w, faults, modified,
                  shortSeen, prev >>

\* lines 73-122: the size, the number of reads, the channels, the receiver
GetFileSizeOk ==
  /\ Running /\ mainpc = "start"
  /\ fsize' = Len(file)
  /\ readCountTotal' = ReadCountTotal(Len(file), arg.buffersize)
  /\ recv' = [NoRecv EXCEPT !.pc = "range"]
  /\ byteOffset' = 0
  /\ i' = 0
  /\ mainpc' = "loop"
  /\ UNCHANGED << file, arg, proc, jc, jcClosed, wg, counterCh, counterClosed,
                  resultClosed, w, ret, faults, modified, shortSeen, prev >>

\* one iteration of the loop of lines 125-140: jc <- true blocks while jc is
\* full; then wg.Add(1), go countWorker(...), byteOffset += ...
Spawn ==
  /\ Running /\ mainpc = "loop" /\ i < arg.splitNum
  /\ JcCanSend
  /\ LET eachReadCount == EachReadCount(readCountTotal, i, arg.splitNum)
     IN  /\ w' = [w EXCEPT ![i] = [IdleWorker EXCEPT
                    !.pc = "start", !.eachReadCount = eachReadCount,
                    !.byteOffset = byteOffset, !.slot = "held"]]
         /\ byteOffset' = NextOffset(byteOffset, eachReadCount, arg.buffersize)
  /\ jc' = jc + 1
  /\ wg' = wg + 1
  /\ i' = i + 1
  /\ UNCHANGED << file, arg, proc, mainpc, fsize, readCountTotal, jcClosed, counterCh,
                  counterClosed, resultClosed, recv, ret, faults, modified, shortSeen,
                  prev >>

\* lines 142-143: wg.Wait() returns, close(counterCh)
WaitAndClose ==
  /\ Running /\ mainpc = "loop" /\ ~(i < arg.splitNum)
  /\ WgIsZero
  /\ counterClosed' = TRUE
  /\ mainpc' = "result"
  /\ UNCHANGED << file, arg, proc, fsize, readCountTotal, i, byteOffset, jc, jcClosed,
                  wg, counterCh, resultClosed, recv, w, ret, faults, modified,
                  shortSeen, prev >>

\* line 145 with line 118: resultCh is unbuffered, so the receiver's send and
\* main's receive are one step; then the deferred close(resultCh), close(jc)
ReturnResult ==
  /\ Running /\ mainpc = "result" /\ recv.pc = "send"
  /\ ret' = [count |-> recv.cAll, err |-> "nil"]
  /\ recv' = [recv EXCEPT !.pc = "done"]
  /\ resultClosed' = TRUE
  /\ jcClosed' = TRUE
  /\ mainpc' = "returned"
  /\ UNCHANGED << file, arg, proc, fsize, readCountTotal, i, byteOffset, jc, wg,
                  counterCh, counterClosed, w, faults, modified, shortSeen, prev >>

\* ---- the receiver goroutine (lines 110-119) -----------------------------
ReceiveCounter ==
  /\ Running /\ recv.pc = "range" /\ counterCh /= << >>
  /\ recv' = [recv EXCEPT !.cAll = @ + Head(counterCh).c, !.n = @ + 1,
                          !.from = @ \cup {Head(counterCh).from}]
  /\ counterCh' = Tail(counterCh)
  /\ UNCHANGED << file, arg, proc, mainpc, fsize, readCountTotal, i, byteOffset, jc,
                  jcClosed, wg, counterClosed, resultClosed, w, ret, faults, modified,
                  shortSeen, prev >>

\* the range loop ends when counterCh is closed and drained
ReceiveEnd ==
  /\ Running /\ recv.pc = "range" /\ counterCh = << >> /\ counterClosed
  /\ recv' = [recv EXCEPT !.pc = "send"]
  /\ UNCHANGED << file, arg, proc, mainpc, fsize, readCountTotal, i, byteOffset, jc,
                  jcClosed, wg, counterCh, counterClosed, resultClosed, w, ret, faults,
                  modified, shortSeen, prev >>

\* ---- countWorker (lines 148-184) ----------------------------------------
WorkerUnchanged ==
  UNCHANGED << file, arg, proc, mainpc, fsize, readCountTotal, i, byteOffset, jc,
               jcClosed, wg, counterCh, counterClosed, resultClosed, recv, ret,
               modified, prev >>

\* variant of ScanReturn without the deferred f.Close()
ScanReturnLeakMut(k, count, err) ==
  [w[k] EXCEPT !.c = count, !.err = err, !.panicking = (err /= "nil"), !.pc = "send",
               !.buf = << >>, !.pos = 0, !.j = 0, !.cnt = 0]

\* getNumOfCharsOnIo returns (count, err) to line 180; lines 181-183: panic(err)
\* when err is not nil. Returning or panicking, the deferred f.Close() (line
\* 168) runs first and the deferred function of lines 152-157 next; the
\* locals of the scan are gone
ScanReturn(k, count, err) ==
  [w[k] EXCEPT !.c = count, !.err = err, !.panicking = (err /= "nil"), !.pc = "send",
               !.hopen = FALSE, !.buf = << >>, !.pos = 0, !.j = 0, !.cnt = 0]

\* variant of FailReturn that leaves the handle open when the seek fails
FailReturnLeakMut(k, what) ==
  [w[k] EXCEPT !.pc = "send", !.failed = what, !.hopen = (what = "seek")]

\* variant of FailReturn without the deferred function
FailReturnMut(k, what) == [w[k] EXCEPT !.pc = "exited", !.failed = what]

\* lines 165-167 and 172-174: return on a failed open or seek; c is still 0,
\* the handle (if any) is closed and the deferred function runs
FailReturn(k, what) == [w[k] EXCEPT !.pc = "send", !.failed = what, !.hopen = FALSE]

\* variant of LoopEnters that runs the loop once more
LoopEntersMut(j, repeatCount) == j <= repeatCount

\* line 194: for i := 0; i < repeatCount; i++
LoopEnters(j, repeatCount) == j < repeatCount

\* lines 164-174 and 189-191: os.OpenFile, f.Seek(byteOffset, 0), the buffer.
\* A failed open returns with c = 0 and no handle; a failed seek returns with
\* c = 0 after the deferred f.Close()
OpenSeek(k) ==
  /\ Running /\ w[k].pc = "start"
  /\ \/ /\ w' = [w EXCEPT ![k] =
                   IF LoopEnters(0, w[k].eachReadCount)
                   THEN [w[k] EXCEPT !.pc = "read", !.hopen = TRUE,
                                     !.pos = w[k].byteOffset,
                                     !.buf = [x \in 1 .. arg.buffersize |-> 0]]
                   ELSE ScanReturn(k, 0, "nil")]
        /\ UNCHANGED faults
     \/ /\ faults < MaxFaults
        /\ faults' = faults + 1
        /\ \E what \in {"open", "seek"} : w' = [w EXCEPT ![k] = FailReturn(k, what)]
  /\ UNCHANGED shortSeen
  /\ WorkerUnchanged

\* variant of ReadStops that takes end-of-file for "no error, go on"
ReadStopsMut(n, err) == err = "EIO"

\* lines 197-204: the scan returns on a read of zero bytes or with an error
ReadStops(n, err) == n = 0 \/ err /= "nil"

\* what the worker record remembers of the read just issued: how many reads it
\* has issued, the n of the last one, and whether the buffer then held an NL
\* at or beyond index n (left there by an earlier, longer read)
ReadIssued(rec, n, buf) ==
  [rec EXCEPT !.reads = @ + 1, !.lastn = n,
              !.stale = (\E x \in (n + 1) .. Len(buf) : buf[x] = NL)]

\* one iteration of the loop of getNumOfCharsOnIo (lines 194-225); after the
\* last one, or on a read of zero bytes or with an error, the function returns
Read(k) ==
  /\ Running /\ w[k].pc = "read"
  /\ \E r \in ReadOutcomes(w[k].pos, arg.buffersize) :
       /\ faults' = IF r.fault THEN faults + 1 ELSE faults
       /\ shortSeen' = (shortSeen \/ r.short)
       /\ IF ReadStops(r.n, r.err)
          THEN w' = [w EXCEPT ![k] =
                       ReadIssued([ScanReturn(k, w[k].cnt, r.err) EXCEPT
                                     !.zero = (r.n = 0)], r.n, w[k].buf)]
          ELSE LET buf == FillBuf(w[k].buf, w[k].pos, r.n)
                   cnt == w[k].cnt + CountInBuf(buf, 0, r.n)
               IN  IF LoopEnters(w[k].j + 1, w[k].eachReadCount)
                   THEN w' = [w EXCEPT ![k] =
                                ReadIssued([w[k] EXCEPT !.buf = buf, !.cnt = cnt,
                                                        !.pos = @ + r.n, !.j = @ + 1],
                                           r.n, buf)]
                   ELSE w' = [w EXCEPT ![k] =
                                ReadIssued(ScanReturn(k, cnt, "nil"), r.n, buf)]
  /\ WorkerUnchanged

\* the deferred function, line 154: counter <- c blocks while counterCh is
\* full; a send on a closed channel panics inside the deferred function
Send(k) ==
  /\ Running /\ w[k].pc = "send"
  /\ IF counterClosed
     THEN /\ w' = [w EXCEPT ![k].pc = "crash", ![k].panicking = TRUE]
          /\ UNCHANGED counterCh
     ELSE /\ CounterCanSend
          /\ counterCh' = Append(counterCh, [from |-> k, c |-> w[k].c])
          /\ w' = [w EXCEPT ![k].pc = "done", ![k].sent = TRUE]
  /\ UNCHANGED << file, arg, proc, mainpc, fsize, readCountTotal, i, byteOffset, jc,
                  jcClosed, wg, counterClosed, resultClosed, recv, ret, faults,
                  modified, shortSeen, prev >>

\* the deferred function, line 155: wg.Done()
Done(k) ==
  /\ Running /\ w[k].pc = "done"
  /\ wg' = wg - 1
  /\ w' = [w EXCEPT ![k].pc = "release"]
  /\ UNCHANGED << file, arg, proc, mainpc, fsize, readCountTotal, i, byteOffset, jc,
                  jcClosed, counterCh, counterClosed, resultClosed, recv, ret, faults,
                  modified, shortSeen, prev >>

\* variant of JcAfterRelease: the slot is not given back
JcAfterReleaseMut == jc

\* <-jc takes one buffered value (a closed, drained jc yields the zero value)
JcAfterRelease == IF jc > 0 THEN jc - 1 ELSE jc

\* the deferred function, line 156: <-jc; then the goroutine ends, or, when it
\* is panicking, the runtime goes on to kill the process
Release(k) ==
  /\ Running /\ w[k].pc = "release"
  /\ jc > 0 \/ jcClosed
  /\ jc' = JcAfterRelease
  /\ w' = [w EXCEPT ![k].pc = IF w[k].panicking THEN "crash" ELSE "exited",
                    ![k].slot = "released"]
  /\ UNCHANGED << file, arg, proc, mainpc, fsize, readCountTotal, i, byteOffset,
                  jcClosed, wg, counterCh, counterClosed, resultClosed, recv, ret,
                  faults, modified, shortSeen, prev >>

\* the unrecovered panic of line 182 ends the process
Crash(k) ==
  /\ Running /\ w[k].pc = "crash"
  /\ proc' = "aborted"
  /\ UNCHANGED << file, arg, mainpc, fsize, readCountTotal, i, byteOffset, jc, jcClosed,
                  wg, counterCh, counterClosed, resultClosed, recv, w, ret, faults,
                  modified, shortSeen, prev >>

\* ---- the environment ----------------------------------------------------
\* the file shrinks after getFileSize has read its size (another process
\* truncates it, or its size as reported by Stat exceeds what it yields)
Truncate ==
  /\ Running /\ mainpc \in {"loop", "result"}
  /\ faults < MaxFaults
  /\ \E n \in 0 .. (Len(file) - 1) : file' = SubSeq(file, 1, n)
  /\ faults' = faults + 1
  /\ modified' = TRUE
  /\ UNCHANGED << arg, proc, mainpc, fsize, readCountTotal, i, byteOffset, jc, jcClosed,
                  wg, counterCh, counterClosed, resultClosed, recv, w, ret, shortSeen,
                  prev >>

ValidConfig == arg.splitNum >= 1 /\ arg.maxThreads >= 1 /\ arg.buffersize >= 1

CleanRun ==
  /\ ~modified /\ ~shortSeen
  /\ \A k \in Workers : w[k].failed = "none" /\ w[k].err = "nil"

\* main prints the total and the process ends (lines 239-244); the program is
\* then started again on the same file with the same -b and any -s, -t
Reinvoke ==
  /\ Running /\ mainpc = "returned" /\ ret.err = "nil"
  /\ ~prev.valid
  /\ \E s \in 0 .. MaxSplit, t \in 0 .. MaxThreads :
       /\ arg' = [arg EXCEPT !.splitNum = s, !.maxThreads = t]
       /\ prev' = [valid |-> TRUE, total |-> ret.count, clean |-> CleanRun,
                   okcfg |-> ValidConfig,
                   changed |-> (s /= arg.splitNum \/ t /= arg.maxThreads)]
  /\ mainpc' = "start"
  /\ fsize' = 0 /\ readCountTotal' = 0 /\ i' = 0 /\ byteOffset' = 0
  /\ jc' = 0 /\ jcClosed' = FALSE
  /\ wg' = 0
  /\ counterCh' = << >> /\ counterClosed' = FALSE
  /\ resultClosed' = FALSE
  /\ recv' = NoRecv
  /\ w' = [k \in Workers |-> IdleWorker]
  /\ ret' = [count |-> 0, err |-> "none"]
  /\ shortSeen' = FALSE
  /\ UNCHANGED << file, proc, faults, modified >>

MainStep == GetFileSizeFail \/ GetFileSizeOk \/ Spawn \/ WaitAndClose \/ ReturnResult

ReceiverStep == ReceiveCounter \/ ReceiveEnd

WorkerStep(k) ==
  OpenSeek(k) \/ Read(k) \/ Send(k) \/ Done(k) \/ Release(k) \/ Crash(k)

\* one invocation of the program
Next ==
  \/ MainStep
  \/ ReceiverStep
  \/ \E k \in Workers : WorkerStep(k)
  \/ Truncate

Spec == Init /\ [][Next]_vars

\* the goroutines are scheduled fairly; the environment owes nothing
FairSpec ==
  /\ Spec
  /\ WF_vars(MainStep)
  /\ WF_vars(ReceiverStep)
  /\ \A k \in Workers : WF_vars(WorkerStep(k))

\* two invocations of the program, one after the other
NextTwice == Next \/ Reinvoke

SpecTwice == Init /\ [][NextTwice]_vars


\* ---- what the claims speak of --------------------------------------------
\* getNumOfLines has returned a Total with a nil error
Returned == mainpc = "returned" /\ ret.err = "nil"

\* countWorker k has been started and has not yet released its slot
Holding(k) == w[k].pc \in {"start", "read", "send", "done", "release"}

\* countWorker k has sent its partial result
Emitted(k) == w[k].pc \in {"done", "release", "crash", "exited"}

Segments == 0 .. (arg.splitNum - 1)

ReadError == \E k \in Workers : w[k].err /= "nil"

\* the file is as it was and every read filled the buffer up to end-of-file
ReadsFill == ~modified /\ ~shortSeen /\ \A k \in Workers : w[k].err /= "EIO"

NoWorkerFailed == \A k \in Workers : w[k].failed = "none"

Reads == [k \in Workers |-> w[k].eachReadCount]

Partials == [k \in Workers |-> w[k].c]

C3_AtMostMaxThreads ==
  /\ Cardinality({k \in Workers : Holding(k)}) <= arg.maxThreads
  /\ Cardinality({k \in Workers : w[k].hopen}) <= arg.maxThreads
  /\ Cardinality({k \in Workers : w[k].buf /= << >>}) <= arg.maxThreads

C3_Witness ==
  /\ arg.splitNum > arg.maxThreads
  /\ Cardinality({k \in Workers : Holding(k)}) = arg.maxThreads
  /\ w[1].hopen /\ w[1].buf /= << >>
  /\ i < arg.splitNum

\* C4: when getNumOfLines returns the Total, every worker has emitted its
\* partial result, the receiver has consumed exactly one result of each
\* segment, and the Total is the sum of the partial results
C4_TotalAfterAllPartials ==
  Returned =>
    /\ \A k \in Segments : Emitted(k)
    /\ recv.n = Cardinality(Segments)
    /\ recv.from = Segments
    /\ counterCh = << >>
    /\ ret.count = SumTo(Partials, arg.splitNum)

C4_Witness ==
  /\ Returned /\ arg.splitNum = 2
  /\ recv.n = 2
  /\ w[0].c >= 1 /\ w[1].c >= 1
  /\ ret.count = w[0].c + w[1].c

\* C5: under fair scheduling a run with a valid configuration returns, unless
\* a read reported an error to a worker
C5_EventuallyReturns ==
  (ValidConfig /\ mainpc = "start") ~> (mainpc = "returned" \/ ReadError)

C5_Witness ==
  /\ Returned /\ ValidConfig /\ ~ReadError
  /\ arg.splitNum > arg.maxThreads

\* C6: the segments' offsets start at 0, each is the previous one plus the
\* previous segment's reads times the buffer size, they never decrease, and
\* the read counts sum to ceil(fsize / buffersize)
C6_SegmentsTile ==
  (ValidConfig /\ mainpc \in {"loop", "result", "returned"} /\ ret.err /= "open") =>
    /\ readCountTotal * arg.buffersize >= fsize
    /\ (readCountTotal - 1) * arg.buffersize < fsize
    /\ \A k \in 0 .. (i - 1) :
         /\ w[k].byteOffset = SumTo(Reads, k) * arg.buffersize
         /\ k > 0 => /\ w[k - 1].byteOffset <= w[k].byteOffset
                     /\ w[k].byteOffset =
                          w[k - 1].byteOffset + w[k - 1].eachReadCount * arg.buffersize
    /\ byteOffset = SumTo(Reads, i) * arg.buffersize
    /\ ~(i < arg.splitNum) => SumTo(Reads, arg.splitNum) = readCountTotal

C6_Witness ==
  /\ ValidConfig /\ mainpc = "result"
  /\ arg.splitNum = 2 /\ readCountTotal = 3
  /\ w[0].eachReadCount = 1 /\ w[1].eachReadCount = 2
  /\ w[1].byteOffset = arg.buffersize
  /\ byteOffset = 3 * arg.buffersize

\* C7: a read of zero bytes ends the scan without an error: no error reaches
\* countWorker, which does not panic
C7_ZeroReadIsNoError ==
  \A k \in Workers : (w[k].zero /\ w[k].err /= "EIO") => (w[k].err = "nil" /\ ~w[k].panicking)

\* C8: no run in which a worker's scan reported a read error returns a Total
C8_NoTotalAfterReadError == ~(Returned /\ ReadError)

C9_FailedWorkerInv ==
  /\ \A k \in Workers :
       w[k].failed /= "none" =>
         /\ w[k].c = 0 /\ ~w[k].hopen /\ ~w[k].panicking
         /\ w[k].pc \in {"send", "done", "release", "exited"}
  /\ Returned =>
       /\ \A k \in Segments : Emitted(k)
       /\ ret.count = SumTo([k \in Workers |->
                               IF w[k].failed = "none" THEN w[k].c ELSE 0], arg.splitNum)

\* C9: a worker whose open or seek failed emits 0, signals completion and
\* releases its slot without panicking; the run still returns, with a nil
\* error, the sum of the other segments' counts
C9_FailedWorkerCountsZero ==
  /\ []C9_FailedWorkerInv
  /\ (~NoWorkerFailed) ~> (Returned \/ ReadError)

C9_Witness ==
  /\ Returned /\ ~NoWorkerFailed
  /\ ret.count >= 1 /\ ret.count < CountNL(file)
  /\ \A k \in Segments : w[k].pc = "exited"

\* C10: when getFileSize fails, getNumOfLines returns (0, err) and nothing
\* has been started: no slot taken, no channel used, no goroutine
C10_TopLevelFailureStartsNothing ==
  ret.err = "open" =>
    /\ mainpc = "returned" /\ ret.count = 0
    /\ jc = 0 /\ wg = 0 /\ counterCh = << >>
    /\ ~jcClosed /\ ~counterClosed /\ ~resultClosed
    /\ recv = NoRecv
    /\ \A k \in Workers : w[k] = IdleWorker

C10_Witness ==
  /\ ret.err = "open" /\ mainpc = "returned"
  /\ ValidConfig /\ CountNL(file) >= 1

\* C11: the core (getNumOfLines) is only ever started with a positive segment
\* count, concurrency limit and buffer size
C11_CoreStartsOnlyWithValidConfig == mainpc /= "start" => ValidConfig

\* segment k is one of the splitNum - readCountTotal surplus segments
Surplus(k) == readCountTotal + k < arg.splitNum

\* getNumOfLines has the size of the file and is past line 90
Planned == mainpc \in {"loop", "result", "returned"} /\ ret.err /= "open"

C12_EmptySegmentsInv ==
  (ValidConfig /\ Planned) =>
    /\ fsize = 0 => readCountTotal = 0
    /\ \A k \in 0 .. (i - 1) :
         (fsize = 0 \/ Surplus(k)) =>
           /\ w[k].eachReadCount = 0 /\ w[k].reads = 0
           /\ w[k].c = 0 /\ w[k].err = "nil" /\ ~w[k].panicking
    /\ (Returned /\ fsize = 0) => ret.count = 0
    /\ Returned => ret.count = SumTo([k \in Workers |-> IF Surplus(k) THEN 0 ELSE w[k].c],
                                     arg.splitNum)

\* C12: for an empty file the number of reads is 0, every segment gets 0 reads,
\* issues no read and the Total is 0; whenever splitNum exceeds the number of
\* reads the surplus segments get 0 reads, issue none and add 0 to the Total;
\* under fair scheduling such a run returns (for the empty file always, else
\* unless a read reported an error)
C12_EmptyAndSurplusSegments ==
  /\ []C12_EmptySegmentsInv
  /\ (ValidConfig /\ mainpc = "loop" /\ fsize = 0) ~> Returned
  /\ (ValidConfig /\ mainpc = "loop" /\ arg.splitNum > readCountTotal)
       ~> (Returned \/ ReadError)

C12_Witness ==
  /\ Returned /\ ValidConfig
  /\ fsize > 0 /\ arg.splitNum = 3 /\ readCountTotal = 1
  /\ w[0].reads = 0 /\ w[1].reads = 0 /\ w[2].reads = 1
  /\ w[0].pc = "exited" /\ w[1].pc = "exited"
  /\ ret.count = 1

\* the file holds a whole number (at least one) of buffers and ends with NL
ExactMultiple ==
  /\ ~modified /\ fsize > 0 /\ fsize % arg.buffersize = 0
  /\ file[Len(file)] = NL

\* exactly fsize / buffersize reads are planned, and once all segments are
\* planned the last read of the last segment covers the last byte
C13_PlanCoversLastByte ==
  /\ readCountTotal * arg.buffersize = fsize
  /\ ~(i < arg.splitNum) =>
       LET last  == arg.splitNum - 1
           start == w[last].byteOffset + (w[last].eachReadCount - 1) * arg.buffersize
       IN  /\ w[last].eachReadCount >= 1
           /\ start <= fsize - 1 /\ fsize - 1 < start + arg.buffersize

C14_LaterSegmentsGetTheExtraRead ==
  (ValidConfig /\ Planned) =>
    /\ \A k \in 0 .. (i - 1) :
         /\ w[k].eachReadCount * arg.splitNum <= readCountTotal + k
         /\ readCountTotal + k < (w[k].eachReadCount + 1) * arg.splitNum
         /\ w[k].eachReadCount > w[0].eachReadCount
              <=> k >= arg.splitNum - (readCountTotal % arg.splitNum)
    /\ \A k, l \in 0 .. (i - 1) :
         k <= l => /\ w[k].eachReadCount <= w[l].eachReadCount
                   /\ w[l].eachReadCount - w[k].eachReadCount <= 1

C14_Witness ==
  /\ ValidConfig /\ mainpc = "result"
  /\ arg.splitNum = 3 /\ readCountTotal = 2
  /\ w[0].eachReadCount = 0 /\ w[1].eachReadCount = 1 /\ w[2].eachReadCount = 1

\* C15: a worker's slot of jc is taken before the worker opens its handle and
\* given back only after the handle is closed and the partial result sent,
\* whether the worker returned normally, failed to open or to seek, or
\* panicked on a read error; jc holds one value per worker between the two
C15_SlotHeldAroundHandle ==
  /\ \A k \in Workers :
       /\ w[k].pc /= "idle" => w[k].slot /= "none"
       /\ w[k].hopen => w[k].slot = "held"
       /\ w[k].slot = "released" => (~w[k].hopen /\ w[k].sent)
  /\ ~jcClosed => jc = Cardinality({k \in Workers : w[k].slot = "held"})

C15_Witness ==
  \E k \in Workers :
    /\ w[k].err = "EIO" /\ w[k].panicking /\ w[k].reads = 2
    /\ w[k].slot = "released" /\ w[k].sent /\ ~w[k].hopen
    /\ \E l \in Workers : w[l].failed = "none" /\ w[l].hopen /\ w[l].slot = "held"

\* C16: a worker reads only while its own handle is open, and the cursor of
\* that handle moves only by the worker's own reads (it lies between the
\* segment's offset and offset + reads * buffersize, and on it when every
\* read was full); the handle is closed on every exit path, so none is open
\* once a worker is past its scan, nor when getNumOfLines returns the Total
C16_OwnHandleClosedOnExit ==
  /\ \A k \in Workers :
       /\ w[k].pc = "read" =>
            /\ w[k].hopen /\ w[k].reads = w[k].j
            /\ w[k].byteOffset <= w[k].pos
            /\ w[k].pos <= w[k].byteOffset + w[k].j * arg.buffersize
            /\ (~modified /\ ~shortSeen) =>
                 w[k].pos = w[k].byteOffset + w[k].j * arg.buffersize
       /\ w[k].pc /= "read" => ~w[k].hopen
       /\ (w[k].failed /= "none" \/ w[k].err /= "nil") => ~w[k].hopen
  /\ Returned => \A k \in Workers : ~w[k].hopen

C16_Witness ==
  /\ Returned /\ arg.splitNum = 2
  /\ w[0].failed = "seek" /\ w[0].pc = "exited"
  /\ w[1].reads = 2 /\ w[1].pc = "exited"
  /\ \A k \in Workers : ~w[k].hopen

\* C17: a read of n > 0 bytes at cursor pos adds to the worker's count exactly
\* the number of NL bytes among the n bytes read, file[pos+1 .. pos+n]: bytes
\* an earlier, longer read left in the buffer beyond n are not counted and no
\* NL is counted twice
C17_CountsOnlyFilledRegion ==
  [][\A k \in Workers :
       (w[k].pc = "read" /\ w'[k] /= w[k] /\ w'[k].lastn > 0) =>
         (IF w'[k].pc = "read" THEN w'[k].cnt ELSE w'[k].c)
           = w[k].cnt + CountNL(SubSeq(file, w[k].pos + 1, w[k].pos + w'[k].lastn))]_vars

C17_Witness ==
  /\ file = << 97, NL, 97 >> /\ arg.buffersize = 2
  /\ w[0].reads = 2 /\ w[0].lastn = 1 /\ w[0].stale
  /\ w[0].c = 1 /\ w[0].err = "nil"

\* C18 as stated: a worker issues at most eachReadCount reads, and none after
\* a read that returned fewer than buffersize bytes or reported an error
C18_NoReadAfterShortRead ==
  [][\A k \in Workers :
       /\ w'[k].reads <= w'[k].eachReadCount
       /\ (w[k].reads > 0 /\ (w[k].lastn < arg.buffersize \/ w[k].err /= "nil"))
            => w'[k].reads = w[k].reads]_vars

\* C18 as amended: a worker issues at most eachReadCount reads, and none after
\* a read that returned zero bytes or reported an error (after a read of
\* fewer than buffersize but more than zero bytes it goes on)
C18_NoReadAfterZeroRead ==
  [][\A k \in Workers :
       /\ w'[k].reads <= w'[k].eachReadCount
       /\ (w[k].reads > 0 /\ (w[k].lastn = 0 \/ w[k].err /= "nil"))
            => w'[k].reads = w[k].reads]_vars

C18_Witness ==
  \E k \in Workers :
    /\ w[k].eachReadCount >= 2 /\ w[k].reads = 1
    /\ w[k].lastn = 0 /\ w[k].zero /\ w[k].err = "EOF"
    /\ w[k].pc = "crash"

\* C19: counterCh is closed only when every segment's worker has been started
\* and has completed its send (so no worker is yet to send, and none dies of a
\* send on a closed channel); jc is closed only when main is past its loop and
\* has returned, so nothing is sent on it afterwards and the workers still to
\* release only receive; resultCh is closed only after the receiver's one
\* send has been received
C19_NoSendOnClosedChannel ==
  /\ counterClosed =>
       /\ ~(i < arg.splitNum) /\ mainpc \in {"result", "returned"}
       /\ \A k \in Segments : w[k].sent
       /\ \A k \in Workers : w[k].pc \notin {"start", "read", "send"}
  /\ \A k \in Workers : w[k].pc = "crash" => w[k].sent
  /\ jcClosed => (mainpc = "returned" /\ ~(i < arg.splitNum) /\ counterClosed)
  /\ resultClosed => (recv.pc = "done" /\ mainpc = "returned" /\ ret.count = recv.cAll)
  /\ recv.pc = "done" => resultClosed

C19_Witness ==
  /\ Returned /\ jcClosed /\ counterClosed /\ resultClosed
  /\ arg.splitNum = 3
  /\ \E k \in Workers : w[k].pc = "release" /\ w[k].slot = "held" /\ w[k].sent
  /\ \E k \in Workers : w[k].pc = "exited"

\* C20: for a file of at least one byte the planned bytes exceed the size by
\* less than one buffer and every planned read of every segment starts below
\* the size; so while the file is unmodified and every read fills the buffer
\* up to end-of-file, no worker gets a read of zero bytes or an end-of-file
\* error, and none panics
C20_PlanStaysInsideFile ==
  (ValidConfig /\ Planned /\ fsize > 0) =>
    /\ 0 <= readCountTotal * arg.buffersize - fsize
    /\ readCountTotal * arg.buffersize - fsize < arg.buffersize
    /\ \A k \in 0 .. (i - 1) : \A j \in 0 .. (w[k].eachReadCount - 1) :
         w[k].byteOffset + j * arg.buffersize < fsize
    /\ ReadsFill =>
         /\ proc = "running"
         /\ \A k \in Workers :
              /\ ~w[k].zero /\ w[k].err = "nil" /\ ~w[k].panicking
              /\ w[k].pc /= "crash"
              /\ w[k].reads > 0 => w[k].lastn > 0

C20_Witness ==
  /\ Returned /\ ValidConfig /\ ReadsFill /\ NoWorkerFailed
  /\ fsize = 3 /\ arg.buffersize = 2 /\ arg.splitNum = 2
  /\ w[0].reads = 1 /\ w[0].lastn = 2
  /\ w[1].reads = 1 /\ w[1].lastn = 1 /\ w[1].byteOffset = 2
  /\ w[0].pc = "exited" /\ w[1].pc = "exited"

====
